---- MODULE Spec2Model ----
(***************************************************************************)
(* Model of json_parser.py: JSONLexer (tokenize and its three scanners),   *)
(* JSONParser (recursive descent, here with an explicit call stack) and    *)
(* parse_json.  Text is a sequence of one-character strings.  The lexer's  *)
(* pos is 0-based as in the source, so the current character is            *)
(* text[pos + 1].                                                          *)
(***************************************************************************)
EXTENDS Integers, Sequences, FiniteSets, TLC

VARIABLES
    text,      \* json_string handed to parse_json
    lexer,     \* JSONLexer fields: pos, line, column, tokens
    parser,    \* JSONParser field: pos (tokens are lexer.tokens)
    stack,     \* call stack of parse_object / parse_array activations
    mode,      \* where the parser is: "value", "member" or "ret"
    ret,       \* value returned by the last parse_value call
    pc,        \* "lex", "parse" or "done"
    outcome,   \* what parse_json returned or raised
    prev,      \* the caller's previous call: its text and outcome
    returned   \* token returned by a direct call of JSONParser.advance

vars == <<text, lexer, parser, stack, mode, ret, pc, outcome, prev, returned>>

(***************************************************************************)
(* Bounds of the input families.                                           *)
(***************************************************************************)
MaxRawLen == 4
MaxElems == 2
MaxMembers == 3

(***************************************************************************)
(* Characters.                                                             *)
(***************************************************************************)
None == "None"

Digits == {"0", "1", "2", "3", "4", "5", "6", "7", "8", "9"}

Letters ==
    {"a", "b", "c", "d", "e", "f", "g", "h", "i", "j", "k", "l", "m", "n",
     "o", "p", "q", "r", "s", "t", "u", "v", "w", "x", "y", "z",
     "A", "B", "C", "D", "E", "F"}

Whitespace == {" ", "\t", "\n", "\r"}

IsDigit(c) == c \in Digits

IsAlpha(c) == c \in Letters

DigitVal(c) ==
    CASE c = "0" -> 0 [] c = "1" -> 1 [] c = "2" -> 2 [] c = "3" -> 3
      [] c = "4" -> 4 [] c = "5" -> 5 [] c = "6" -> 6 [] c = "7" -> 7
      [] c = "8" -> 8 [] c = "9" -> 9

HexDigits == Digits \cup {"a", "b", "c", "d", "e", "f", "A", "B", "C", "D", "E", "F"}

HexVal(c) ==
    IF c \in Digits THEN DigitVal(c)
    ELSE CASE c \in {"a", "A"} -> 10 [] c \in {"b", "B"} -> 11
           [] c \in {"c", "C"} -> 12 [] c \in {"d", "D"} -> 13
           [] c \in {"e", "E"} -> 14 [] c \in {"f", "F"} -> 15

RECURSIVE Join(_)
Join(s) == IF s = <<>> THEN "" ELSE Head(s) \o Join(Tail(s))

(***************************************************************************)
(* JSON values, all of one record shape so that any two compare.           *)
(*   null: t   bool: n (1/0)   int: n   float: n * 10^e, n without         *)
(*   trailing zeros   str: s   array: items   object: keys, items          *)
(***************************************************************************)
Val(t, n, e, s, keys, items) ==
    [t |-> t, n |-> n, e |-> e, s |-> s, keys |-> keys, items |-> items]

NullV == Val("null", 0, 0, <<>>, <<>>, <<>>)
BoolV(b) == Val("bool", IF b THEN 1 ELSE 0, 0, <<>>, <<>>, <<>>)
IntV(n) == Val("int", n, 0, <<>>, <<>>, <<>>)
StrV(s) == Val("str", 0, 0, s, <<>>, <<>>)
ArrV(items) == Val("array", 0, 0, <<>>, <<>>, items)
ObjV(keys, items) == Val("object", 0, 0, <<>>, keys, items)

RECURSIVE Normalize(_, _)
Normalize(n, e) ==
    IF n = 0 THEN <<0, 0>>
    ELSE IF n % 10 = 0 THEN Normalize(n \div 10, e + 1)
    ELSE <<n, e>>

FloatV(n, e) ==
    LET ne == Normalize(n, e) IN Val("float", ne[1], ne[2], <<>>, <<>>, <<>>)

(***************************************************************************)
(* int() and float() on a lexeme made of the characters tokenize_number    *)
(* can collect: - digits . e E +                                           *)
(***************************************************************************)
RECURSIVE DigitRun(_, _)
\* Length of the run of digits of s starting at index i.
DigitRun(s, i) ==
    IF i <= Len(s) /\ IsDigit(s[i]) THEN 1 + DigitRun(s, i + 1) ELSE 0

RECURSIVE DigitsValue(_)
DigitsValue(s) ==
    IF s = <<>> THEN 0
    ELSE 10 * DigitsValue(SubSeq(s, 1, Len(s) - 1)) + DigitVal(s[Len(s)])

\* int(result): optional sign, one or more digits, nothing else.
IntOf(s) ==
    LET neg == s # <<>> /\ s[1] = "-"
        i0  == IF s # <<>> /\ s[1] \in {"-", "+"} THEN 2 ELSE 1
        n   == DigitRun(s, i0)
    IN  IF n >= 1 /\ i0 + n = Len(s) + 1
        THEN [ok |-> TRUE,
              value |-> IntV((IF neg THEN -1 ELSE 1)
                             * DigitsValue(SubSeq(s, i0, i0 + n - 1)))]
        ELSE [ok |-> FALSE, value |-> NullV]

\* float(result): sign? (digits+ (. digits* )? | . digits+) ([eE] sign? digits+)?
FloatOf(s) ==
    LET neg  == s # <<>> /\ s[1] = "-"
        i0   == IF s # <<>> /\ s[1] \in {"-", "+"} THEN 2 ELSE 1
        ni   == DigitRun(s, i0)
        i1   == i0 + ni
        dot  == i1 <= Len(s) /\ s[i1] = "."
        nf   == IF dot THEN DigitRun(s, i1 + 1) ELSE 0
        i2   == IF dot THEN i1 + 1 + nf ELSE i1
        hasE == i2 <= Len(s) /\ s[i2] \in {"e", "E"}
        sgn  == hasE /\ i2 + 1 <= Len(s) /\ s[i2 + 1] \in {"+", "-"}
        i3   == IF hasE THEN (IF sgn THEN i2 + 2 ELSE i2 + 1) ELSE i2
        ne   == IF hasE THEN DigitRun(s, i3) ELSE 0
        i4   == i3 + ne
        eneg == sgn /\ s[i2 + 1] = "-"
        mant == DigitsValue(SubSeq(s, i0, i1 - 1) \o SubSeq(s, i1 + 1, i1 + nf))
        expo == (IF eneg THEN -1 ELSE 1) * DigitsValue(SubSeq(s, i3, i4 - 1))
    IN  IF /\ ni + nf >= 1
           /\ (hasE => ne >= 1)
           /\ i4 = Len(s) + 1
        THEN [ok |-> TRUE,
              value |-> FloatV((IF neg THEN -1 ELSE 1) * mant, expo - nf)]
        ELSE [ok |-> FALSE, value |-> NullV]

HasChar(s, cs) == \E i \in 1..Len(s) : s[i] \in cs

\* int(hex_digits, 16) for four collected characters: surrounding whitespace
\* is stripped, then every character must be a hexadecimal digit.
RECURSIVE LStrip(_)
LStrip(s) == IF s # <<>> /\ Head(s) \in Whitespace THEN LStrip(Tail(s)) ELSE s

RECURSIVE RStrip(_)
RStrip(s) ==
    IF s # <<>> /\ s[Len(s)] \in Whitespace
    THEN RStrip(SubSeq(s, 1, Len(s) - 1)) ELSE s

RECURSIVE HexValue(_)
HexValue(s) ==
    IF s = <<>> THEN 0
    ELSE 16 * HexValue(SubSeq(s, 1, Len(s) - 1)) + HexVal(s[Len(s)])

HexOf(s) ==
    LET t == RStrip(LStrip(s))
    IN  IF t # <<>> /\ \A i \in 1..Len(t) : t[i] \in HexDigits
        THEN [ok |-> TRUE, n |-> HexValue(t)]
        ELSE [ok |-> FALSE, n |-> 0]

\* chr(n) as a one-element text.
Chr(n) ==
    CASE n = 65 -> "A"
      [] n = 10 -> "\n"
      [] OTHER -> "chr(" \o ToString(n) \o ")"

(***************************************************************************)
(* Outcomes of parse_json.  kind is "value" (a return), "LexError" or      *)
(* "ParseError" (the SyntaxError raised by JSONLexer.error or              *)
(* JSONParser.error, whose message carries the line and the column), or    *)
(* the name of any other exception that escapes: "TypeError",              *)
(* "ValueError".                                                           *)
(***************************************************************************)
Outcome(kind, msg, line, column, value) ==
    [kind |-> kind, msg |-> msg, line |-> line, column |-> column, value |-> value]

NoOutcome == Outcome("none", "", 0, 0, NullV)

Returned(v) == Outcome("value", "", 0, 0, v)

Raised(kind) == Outcome(kind, "", 0, 0, NullV)

(***************************************************************************)
(* Tokens.  start and end are the offsets of the token's first character   *)
(* and of the character after its last; the source's Token does not hold   *)
(* them, the model records them so that a token can be compared with the   *)
(* text it came from.                                                      *)
(***************************************************************************)
Token(type, value, line, column, start, end) ==
    [type |-> type, value |-> value, line |-> line, column |-> column,
     start |-> start, end |-> end]

NoToken == Token("NONE", NullV, 0, 0, 0, 0)

(***************************************************************************)
(* JSONLexer                                                               *)
(***************************************************************************)
NewLexer == [pos |-> 0, line |-> 1, column |-> 1, tokens |-> <<>>]

LexerError(lx, msg) == Outcome("LexError", msg, lx.line, lx.column, NullV)

PeekAt(lx, offset) ==
    IF lx.pos + offset < Len(text) THEN text[lx.pos + offset + 1] ELSE None

Peek(lx) == PeekAt(lx, 0)

\* A slip: the column keeps counting across a newline.
AdvanceNoColumnReset(lx) ==
    IF lx.pos < Len(text)
    THEN IF text[lx.pos + 1] = "\n"
         THEN [lx EXCEPT !.pos = @ + 1, !.line = @ + 1, !.column = @ + 1]
         ELSE [lx EXCEPT !.pos = @ + 1, !.column = @ + 1]
    ELSE lx

\* advance: the character it returns is Peek(lx).
Advance(lx) ==
    IF lx.pos < Len(text)
    THEN IF text[lx.pos + 1] = "\n"
         THEN [lx EXCEPT !.pos = @ + 1, !.line = @ + 1, !.column = 1]
         ELSE [lx EXCEPT !.pos = @ + 1, !.column = @ + 1]
    ELSE lx

Emit(lx, type, value, line, column, start) ==
    [lx EXCEPT !.tokens = Append(@, Token(type, value, line, column, start, lx.pos))]

\* A scanner's result: the lexer after it, and what it raised, if anything.
Scanned(lx) == [lx |-> lx, raised |-> NoOutcome]

Failed(lx, o) == [lx |-> lx, raised |-> o]

RECURSIVE TakeDigits(_)
\* while self.peek() and self.peek().isdigit(): result += self.advance()
TakeDigits(lx) ==
    IF Peek(lx) # None /\ IsDigit(Peek(lx)) THEN TakeDigits(Advance(lx)) ELSE lx

\* The characters consumed between two lexer states: the scanner's result.
Lexeme(from, to) == SubSeq(text, from.pos + 1, to.pos)

TokenizeNumber(lx0) ==
    LET lx1 == IF Peek(lx0) = "-" THEN Advance(lx0) ELSE lx0
        lx2 == IF Peek(lx1) = "0" THEN Advance(lx1) ELSE TakeDigits(lx1)
        lx3 == IF Peek(lx2) = "." THEN TakeDigits(Advance(lx2)) ELSE lx2
        \* self.peek() in 'eE' with self.peek() None: TypeError
        lx4 == IF Peek(lx3) \in {"e", "E"} THEN Advance(lx3) ELSE lx3
        hasE == Peek(lx3) \in {"e", "E"}
        \* self.peek() in '+-' with self.peek() None: TypeError
        lx5 == IF hasE
               THEN TakeDigits(IF Peek(lx4) \in {"+", "-"} THEN Advance(lx4) ELSE lx4)
               ELSE lx3
        result == Lexeme(lx0, lx5)
        conv == IF HasChar(result, {".", "e", "E"}) THEN FloatOf(result) ELSE IntOf(result)
    IN  IF Peek(lx3) = None THEN Failed(lx3, Raised("TypeError"))
        ELSE IF hasE /\ Peek(lx4) = None THEN Failed(lx4, Raised("TypeError"))
        ELSE IF ~conv.ok
             THEN Failed(lx5, LexerError(lx5, "Invalid number: " \o Join(result)))
        ELSE Scanned(Emit(lx5, "NUMBER", conv.value, lx0.line, lx0.column, lx0.pos))

RECURSIVE TakeAlpha(_)
TakeAlpha(lx) ==
    IF Peek(lx) # None /\ IsAlpha(Peek(lx)) THEN TakeAlpha(Advance(lx)) ELSE lx

TokenizeKeyword(lx0) ==
    LET lx1 == TakeAlpha(lx0)
        result == Lexeme(lx0, lx1)
    IN  CASE result = <<"t", "r", "u", "e">> ->
               Scanned(Emit(lx1, "TRUE", BoolV(TRUE), lx0.line, lx0.column, lx0.pos))
          [] result = <<"f", "a", "l", "s", "e">> ->
               Scanned(Emit(lx1, "FALSE", BoolV(FALSE), lx0.line, lx0.column, lx0.pos))
          [] result = <<"n", "u", "l", "l">> ->
               Scanned(Emit(lx1, "NULL", NullV, lx0.line, lx0.column, lx0.pos))
          [] OTHER ->
               Failed(lx1, LexerError(lx1, "Invalid keyword: " \o Join(result)))

SimpleEscapes == {"\"", "\\", "/", "b", "f", "n", "r", "t"}

\* The backspace character has no literal here and is written \b.
Unescape(c) ==
    CASE c = "\"" -> "\""
      [] c = "\\" -> "\\"
      [] c = "/" -> "/"
      [] c = "b" -> "\\b"
      [] c = "f" -> "\f"
      [] c = "n" -> "\n"
      [] c = "r" -> "\r"
      [] c = "t" -> "\t"

RECURSIVE StringLoop(_, _, _)
\* The while loop of tokenize_string; lx0 is the lexer at the opening quote.
StringLoop(lx0, lx, result) ==
    LET char == Peek(lx) IN
    IF char = "\"" THEN
        Scanned(Emit(Advance(lx), "STRING", StrV(result), lx0.line, lx0.column, lx0.pos))
    ELSE IF char = None THEN
        Failed(lx, LexerError(lx, "Unterminated string"))
    ELSE IF char = "\\" THEN
        LET lx1 == Advance(lx)
            escaped == Peek(lx1)
            lx2 == Advance(lx1)
        IN  IF escaped \in SimpleEscapes THEN
                StringLoop(lx0, lx2, Append(result, Unescape(escaped)))
            ELSE IF escaped = "u" THEN
                \* four times hex_digits += self.advance(); None + str: TypeError
                LET lx3 == Advance(Advance(Advance(Advance(lx2))))
                    hex == HexOf(Lexeme(lx2, lx3))
                IN  IF lx3.pos - lx2.pos < 4 THEN Failed(lx3, Raised("TypeError"))
                    ELSE IF ~hex.ok THEN Failed(lx3, Raised("ValueError"))
                    ELSE StringLoop(lx0, lx3, Append(result, Chr(hex.n)))
            ELSE
                Failed(lx2, LexerError(lx2, "Invalid escape sequence: \\" \o escaped))
    ELSE
        StringLoop(lx0, Advance(lx), Append(result, char))

TokenizeString(lx0) == StringLoop(lx0, Advance(lx0), <<>>)

Structural == {"{", "}", "[", "]", ":", ","}

StructuralType(c) ==
    CASE c = "{" -> "LBRACE" [] c = "}" -> "RBRACE"
      [] c = "[" -> "LBRACKET" [] c = "]" -> "RBRACKET"
      [] c = ":" -> "COLON" [] c = "," -> "COMMA"

(***************************************************************************)
(* JSONParser                                                              *)
(***************************************************************************)
NewParser == [pos |-> 0]

Min(a, b) == IF a < b THEN a ELSE b

CurrentToken(p) == lexer.tokens[Min(p.pos, Len(lexer.tokens) - 1) + 1]

PeekToken(p, offset) == lexer.tokens[Min(p.pos + offset, Len(lexer.tokens) - 1) + 1]

ParserError(p, msg) ==
    Outcome("ParseError", msg, CurrentToken(p).line, CurrentToken(p).column, NullV)

\* A slip: the cursor moves past the final token.
AdvanceUnguarded(p) == [p EXCEPT !.pos = @ + 1]

\* advance: the token it returns is CurrentToken(p).
ParserAdvance(p) ==
    IF p.pos < Len(lexer.tokens) - 1 THEN [p EXCEPT !.pos = @ + 1] ELSE p

\* expect: the parser after it, and what it raised, if anything.
Expect(p, type) ==
    IF CurrentToken(p).type # type
    THEN [p |-> p,
          raised |-> ParserError(p, "Expected " \o type \o ", got " \o CurrentToken(p).type)]
    ELSE [p |-> ParserAdvance(p), raised |-> NoOutcome]

\* A slip: parse_value takes the EOF token for a value.
ScalarTypesAndEOF == {"STRING", "NUMBER", "TRUE", "FALSE", "NULL", "EOF"}

ScalarTypes == {"STRING", "NUMBER", "TRUE", "FALSE", "NULL"}

Index(keys, key) == CHOOSE i \in 1..Len(keys) : keys[i] = key

\* A slip: the first occurrence of a key is kept.
SetItemKeepFirst(obj, key, value) ==
    IF \E i \in 1..Len(obj.keys) : obj.keys[i] = key
    THEN obj
    ELSE [obj EXCEPT !.keys = Append(@, key), !.items = Append(@, value)]

\* obj[key] = value on a dict: an existing key keeps its place.
SetItem(obj, key, value) ==
    IF \E i \in 1..Len(obj.keys) : obj.keys[i] = key
    THEN [obj EXCEPT !.items[Index(obj.keys, key)] = value]
    ELSE [obj EXCEPT !.keys = Append(@, key), !.items = Append(@, value)]

\* A slip: the check after the comma is left out.
NeverTrailing(p, closer) == FALSE

\* The check made after a comma was consumed: is the container closed here?
IsTrailingComma(p, closer) == CurrentToken(p).type = closer

\* An activation of parse_object or parse_array: the container built so
\* far, the pending key, and the cursor at which parse_value was entered.
Frame(fn, obj, key, entry) == [fn |-> fn, obj |-> obj, key |-> key, entry |-> entry]

Top == stack[Len(stack)]

Pop == SubSeq(stack, 1, Len(stack) - 1)

ReplaceTop(f) == [stack EXCEPT ![Len(stack)] = f]

(***************************************************************************)
(* Inputs: documents built by the grammar value := scalar | array |        *)
(* object, their proper prefixes, every short text over the characters of  *)
(* numbers and arrays, and the inputs the specification names.             *)
(***************************************************************************)
RECURSIVE Concat(_)
Concat(ss) == IF ss = <<>> THEN <<>> ELSE Head(ss) \o Concat(Tail(ss))

RECURSIVE CommaSeparated(_)
CommaSeparated(ss) ==
    IF ss = <<>> THEN <<>>
    ELSE IF Len(ss) = 1 THEN ss[1]
    ELSE ss[1] \o <<",">> \o CommaSeparated(Tail(ss))

Quoted(s) == <<"\"">> \o s \o <<"\"">>

TrueText == <<"t", "r", "u", "e">>
NullText == <<"n", "u", "l", "l">>
FalseText == <<"f", "a", "l", "s", "e">>

ElemScalars == {<<"1">>, <<"2">>, TrueText, Quoted(<<"a">>)}

TopScalars ==
    ElemScalars \cup
    {<<"4", "2">>, <<"1", ".", "5">>, <<"1", "e", "1">>, NullText, FalseText,
     Quoted(<<"\\", "u", "0", "0", "4", "1", "\\", "n">>)}

Keys == {Quoted(<<"a">>), Quoted(<<"b">>)}

PositionDigit(i) == <<ToString(i)>>

ArraysOf(elems, n) ==
    {<<"[">> \o CommaSeparated(es) \o <<"]">> : es \in [1..n -> elems]}

\* Member i of a generated object has the value i, so that the occurrences
\* of a key differ in their values.
ObjectsOf(n) ==
    {<<"{">> \o CommaSeparated([i \in 1..n |-> ks[i] \o <<":">> \o PositionDigit(i)])
        \o <<"}">> : ks \in [1..n -> Keys]}

Arrays == UNION {ArraysOf(ElemScalars, n) : n \in 0..MaxElems}

Objects == UNION {ObjectsOf(n) : n \in 0..MaxMembers}

Small == ArraysOf(ElemScalars, 0) \cup ArraysOf({<<"1">>}, 1) \cup ObjectsOf(0) \cup ObjectsOf(1)

Nested ==
    {<<"[">> \o d \o <<"]">> : d \in Small}
    \cup {<<"[">> \o d \o <<",", "1", "]">> : d \in Small}
    \cup {<<"{">> \o Quoted(<<"a">>) \o <<":">> \o d \o <<"}">> : d \in Small}

Docs == TopScalars \cup Arrays \cup Objects \cup Nested

Prefixes == UNION {{SubSeq(d, 1, k) : k \in 0..(Len(d) - 1)} : d \in Docs}

RawAlphabet == {"[", "]", ",", "0", "1", "-", ".", "e", "+"}

Raw == UNION {[1..n -> RawAlphabet] : n \in 0..MaxRawLen}

Examples ==
    {<<"{", "\n", " ", " ", "\"", "a", "\"", ":", " ", "}">>,
     <<"{", "\"", "a", "\"", ":", "1", ",", "\"", "a", "\"", ":", "2", "}">>,
     <<"[", "1", ",", "2", ",", "]">>,
     <<"{", "\"", "a", "\"", ":", "1", ",", "}">>,
     <<"{", ",", "}">>,
     <<"{", "\"", "a", "\"", ":">>,
     <<"{", "\"", "a", "\"", ":", "1">>,
     <<"[", "\"", "x", "\"", ",">>,
     <<"[", "-", ".", "5", "]">>,
     <<"\"", "\\", "x", "\"">>,
     <<"t", "r", "u", "e", " ", "1">>,
     <<"n", "u", "l">>,
     <<"@">>}

Inputs == Docs \cup Prefixes \cup Raw \cup Examples

InsertedChars == {",", " ", "\n"}

InsertAt(s, i, c) == SubSeq(s, 1, i) \o <<c>> \o SubSeq(s, i + 1, Len(s))

NoPrev == [text |-> <<>>, outcome |-> NoOutcome, at |-> -1, ch |-> None]

(***************************************************************************)
(* parse_json(json_string): lexer = JSONLexer(json_string)                 *)
(***************************************************************************)
Start(t, p) ==
    /\ text = t
    /\ lexer = NewLexer
    /\ parser = NewParser
    /\ stack = <<>>
    /\ mode = "value"
    /\ ret = NullV
    /\ pc = "lex"
    /\ outcome = NoOutcome
    /\ prev = p
    /\ returned = NoToken

Init == \E t \in Inputs : Start(t, NoPrev)

Raise(o) ==
    /\ pc' = "done"
    /\ outcome' = o

ParserVars == <<parser, stack, mode, ret>>

(***************************************************************************)
(* JSONLexer.tokenize: one action per branch of the main loop's body.      *)
(***************************************************************************)
InLoop == pc = "lex" /\ lexer.pos < Len(text)

AtWhitespace == InLoop /\ Peek(lexer) \in Whitespace

AtStructural == InLoop /\ Peek(lexer) \in Structural

AtQuote == InLoop /\ Peek(lexer) = "\""

AtNumber == InLoop /\ (Peek(lexer) = "-" \/ IsDigit(Peek(lexer)))

AtKeyword == InLoop /\ Peek(lexer) \in {"t", "f", "n"}

AtOther ==
    /\ InLoop
    /\ Peek(lexer) \notin Whitespace \cup Structural \cup {"\"", "-", "t", "f", "n"}
    /\ ~IsDigit(Peek(lexer))

AtEnd == pc = "lex" /\ lexer.pos >= Len(text)

LexWhitespace ==
    /\ AtWhitespace
    /\ lexer' = Advance(lexer)
    /\ UNCHANGED <<text, ParserVars, pc, outcome, prev, returned>>

LexStructural ==
    /\ AtStructural
    /\ lexer' = Emit(Advance(lexer), StructuralType(Peek(lexer)), StrV(<<Peek(lexer)>>),
                     lexer.line, lexer.column, lexer.pos)
    /\ UNCHANGED <<text, ParserVars, pc, outcome, prev, returned>>

Scan(r) ==
    /\ lexer' = r.lx
    /\ IF r.raised.kind = "none"
       THEN UNCHANGED <<pc, outcome>>
       ELSE Raise(r.raised)
    /\ UNCHANGED <<text, ParserVars, prev, returned>>

LexString ==
    /\ AtQuote
    /\ Scan(TokenizeString(lexer))

LexNumber ==
    /\ AtNumber
    /\ Scan(TokenizeNumber(lexer))

LexKeyword ==
    /\ AtKeyword
    /\ Scan(TokenizeKeyword(lexer))

LexUnexpected ==
    /\ AtOther
    /\ Raise(LexerError(lexer, "Unexpected character: " \o Peek(lexer)))
    /\ UNCHANGED <<text, lexer, ParserVars, prev, returned>>

\* The loop is left: the EOF token is appended and parse_json builds the
\* parser and calls parse, which calls parse_value.
LexEnd ==
    /\ AtEnd
    /\ lexer' = Emit(lexer, "EOF", NullV, lexer.line, lexer.column, lexer.pos)
    /\ parser' = NewParser
    /\ stack' = <<>>
    /\ mode' = "value"
    /\ pc' = "parse"
    /\ UNCHANGED <<text, ret, outcome, prev, returned>>

(***************************************************************************)
(* JSONParser.parse and the productions.  mode = "value": parse_value is   *)
(* being entered at the current token.  mode = "member": parse_object is   *)
(* at the head of its loop.  mode = "ret": parse_value has returned ret to *)
(* the activation on top of the stack, or to parse when the stack is       *)
(* empty.                                                                  *)
(***************************************************************************)
Parsing(m) == pc = "parse" /\ mode = m

OnScalar == Parsing("value") /\ CurrentToken(parser).type \in ScalarTypes

OnLBrace == Parsing("value") /\ CurrentToken(parser).type = "LBRACE"

OnLBracket == Parsing("value") /\ CurrentToken(parser).type = "LBRACKET"

OnOther ==
    /\ Parsing("value")
    /\ CurrentToken(parser).type \notin ScalarTypes \cup {"LBRACE", "LBRACKET"}

AtMember == Parsing("member")

AfterMember == Parsing("ret") /\ stack # <<>> /\ Top.fn = "object"

AfterElement == Parsing("ret") /\ stack # <<>> /\ Top.fn = "array"

AfterValue == Parsing("ret") /\ stack = <<>>

ParseRaise(p, o) ==
    /\ parser' = p
    /\ Raise(o)
    /\ UNCHANGED <<text, lexer, stack, mode, ret, prev, returned>>

Continue(p, st, m, r) ==
    /\ parser' = p
    /\ stack' = st
    /\ mode' = m
    /\ ret' = r
    /\ UNCHANGED <<text, lexer, pc, outcome, prev, returned>>

\* parse_value on STRING, NUMBER, TRUE, FALSE, NULL
ParseScalar ==
    /\ OnScalar
    /\ Continue(ParserAdvance(parser), stack, "ret", CurrentToken(parser).value)

\* parse_value on any other token than a value's first
ParseUnexpected ==
    /\ OnOther
    /\ ParseRaise(parser, ParserError(parser, "Unexpected token: " \o CurrentToken(parser).type))

\* parse_value on LBRACE: parse_object up to its loop
ParseObject ==
    /\ OnLBrace
    /\ LET e == Expect(parser, "LBRACE") IN
       IF CurrentToken(e.p).type = "RBRACE"
       THEN Continue(ParserAdvance(e.p), stack, "ret", ObjV(<<>>, <<>>))
       ELSE Continue(e.p, Append(stack, Frame("object", ObjV(<<>>, <<>>), <<>>, parser.pos)),
                     "member", ret)

\* parse_object: the key and the colon of a member, then parse_value
ParseMemberKey ==
    /\ AtMember
    /\ LET k == Expect(parser, "STRING")
           c == Expect(k.p, "COLON")
       IN  IF k.raised.kind # "none" THEN ParseRaise(k.p, k.raised)
           ELSE IF c.raised.kind # "none" THEN ParseRaise(c.p, c.raised)
           ELSE Continue(c.p, ReplaceTop([Top EXCEPT !.key = CurrentToken(parser).value.s]),
                         "value", ret)

\* parse_object after parse_value returned: store the member, then the
\* comma and the trailing-comma check, or the closing brace
ParseMemberEnd ==
    /\ AfterMember
    /\ LET obj == SetItem(Top.obj, Top.key, ret)
           st == ReplaceTop([Top EXCEPT !.obj = obj])
           p1 == ParserAdvance(parser)
           e == Expect(parser, "RBRACE")
       IN  IF CurrentToken(parser).type = "COMMA"
           THEN IF IsTrailingComma(p1, "RBRACE")
                THEN ParseRaise(p1, ParserError(p1, "Trailing comma in object"))
                ELSE Continue(p1, st, "member", ret)
           ELSE IF e.raised.kind # "none" THEN ParseRaise(e.p, e.raised)
           ELSE Continue(e.p, Pop, "ret", obj)

\* parse_value on LBRACKET: parse_array up to its loop
ParseArray ==
    /\ OnLBracket
    /\ LET e == Expect(parser, "LBRACKET") IN
       IF CurrentToken(e.p).type = "RBRACKET"
       THEN Continue(ParserAdvance(e.p), stack, "ret", ArrV(<<>>))
       ELSE Continue(e.p, Append(stack, Frame("array", ArrV(<<>>), <<>>, parser.pos)),
                     "value", ret)

\* parse_array after parse_value returned: append the element, then the
\* comma and the trailing-comma check, or the closing bracket
ParseElementEnd ==
    /\ AfterElement
    /\ LET arr == [Top.obj EXCEPT !.items = Append(@, ret)]
           st == ReplaceTop([Top EXCEPT !.obj = arr])
           p1 == ParserAdvance(parser)
           e == Expect(parser, "RBRACKET")
       IN  IF CurrentToken(parser).type = "COMMA"
           THEN IF IsTrailingComma(p1, "RBRACKET")
                THEN ParseRaise(p1, ParserError(p1, "Trailing comma in array"))
                ELSE Continue(p1, st, "value", ret)
           ELSE IF e.raised.kind # "none" THEN ParseRaise(e.p, e.raised)
           ELSE Continue(e.p, Pop, "ret", arr)

\* parse after parse_value returned: the end of input, and parse_json returns
ParseEnd ==
    /\ AfterValue
    /\ IF CurrentToken(parser).type # "EOF"
       THEN ParseRaise(parser, ParserError(parser, "Expected end of input"))
       ELSE /\ Raise(Returned(ret))
            /\ UNCHANGED <<text, lexer, ParserVars, prev, returned>>

(***************************************************************************)
(* The caller.  JSONParser.advance is a method any holder of the parser    *)
(* may call; after a parse that returned, the cursor is on the EOF token.  *)
(* And a caller that has the result for a document calls parse_json again  *)
(* on the document with one more character in it.                          *)
(***************************************************************************)
CallAdvance ==
    /\ pc = "done"
    /\ outcome.kind = "value"
    /\ returned' = CurrentToken(parser)
    /\ parser' = ParserAdvance(parser)
    /\ UNCHANGED <<text, lexer, stack, mode, ret, pc, outcome, prev>>

CallAgain ==
    /\ pc = "done"
    /\ prev = NoPrev
    /\ text \in Docs
    /\ \E i \in 0..Len(text), c \in InsertedChars :
          /\ text' = InsertAt(text, i, c)
          /\ prev' = [text |-> text, outcome |-> outcome, at |-> i, ch |-> c]
    /\ lexer' = NewLexer
    /\ parser' = NewParser
    /\ stack' = <<>>
    /\ mode' = "value"
    /\ ret' = NullV
    /\ pc' = "lex"
    /\ outcome' = NoOutcome
    /\ returned' = NoToken

Next ==
    \/ LexWhitespace
    \/ LexStructural
    \/ LexString
    \/ LexNumber
    \/ LexKeyword
    \/ LexUnexpected
    \/ LexEnd
    \/ ParseScalar
    \/ ParseUnexpected
    \/ ParseObject
    \/ ParseMemberKey
    \/ ParseMemberEnd
    \/ ParseArray
    \/ ParseElementEnd
    \/ ParseEnd
    \/ CallAdvance
    \/ CallAgain

Spec == Init /\ [][Next]_vars

\* A step of the call is possible: the condition of one of its actions
\* holds (what an action does besides is an assignment, always possible).
Steppable ==
    \/ AtWhitespace \/ AtStructural \/ AtQuote \/ AtNumber \/ AtKeyword \/ AtOther
    \/ AtEnd \/ OnScalar \/ OnOther \/ OnLBrace \/ OnLBracket \/ AtMember
    \/ AfterMember \/ AfterElement \/ AfterValue

(***************************************************************************)
(* What the claims are stated with.                                        *)
(***************************************************************************)
Done == pc = "done"

Tokens == lexer.tokens

Text(tok) == SubSeq(text, tok.start + 1, tok.end)

\* The number grammar: -? (0 | [1-9][0-9]*) (. [0-9]+)? ([eE] [+-]? [0-9]+)?
IsNumberLexeme(s) ==
    LET i0   == IF s # <<>> /\ s[1] = "-" THEN 2 ELSE 1
        ni   == IF i0 <= Len(s) /\ s[i0] = "0" THEN 1 ELSE DigitRun(s, i0)
        i1   == i0 + ni
        dot  == i1 <= Len(s) /\ s[i1] = "."
        nf   == IF dot THEN DigitRun(s, i1 + 1) ELSE 0
        i2   == IF dot THEN i1 + 1 + nf ELSE i1
        hasE == i2 <= Len(s) /\ s[i2] \in {"e", "E"}
        sgn  == hasE /\ i2 + 1 <= Len(s) /\ s[i2 + 1] \in {"+", "-"}
        i3   == IF hasE THEN (IF sgn THEN i2 + 2 ELSE i2 + 1) ELSE i2
        ne   == IF hasE THEN DigitRun(s, i3) ELSE 0
    IN  /\ ni >= 1
        /\ dot => nf >= 1
        /\ hasE => ne >= 1
        /\ i3 + ne = Len(s) + 1

IsPlainString(s) ==
    /\ Len(s) >= 2
    /\ s[1] = "\"" /\ s[Len(s)] = "\""
    /\ \A i \in 2..(Len(s) - 1) : s[i] \in Letters

IsBareScalar(s) ==
    IsNumberLexeme(s) \/ IsPlainString(s) \/ s \in {TrueText, FalseText, NullText}

IsLocated(o) ==
    /\ o.kind \in {"LexError", "ParseError"}
    /\ o.msg # ""
    /\ o.line >= 1
    /\ o.column >= 1

LineOf(t, offset) == 1 + Cardinality({i \in 1..offset : t[i] = "\n"})

ColumnOf(t, offset) ==
    LET nl == {0} \cup {i \in 1..offset : t[i] = "\n"}
        last == CHOOSE i \in nl : \A j \in nl : j <= i
    IN  offset - last + 1

(***************************************************************************)
(* C1: a document that is one bare scalar and nothing else parses to that  *)
(* scalar: 42 to the integer 42, true to True, null to None, and no lone   *)
(* number, string, boolean or null raises.                                 *)
(***************************************************************************)
ScalarRootsAccepted ==
    (Done /\ IsBareScalar(text)) =>
        /\ outcome.kind = "value"
        /\ text = <<"4", "2">> => outcome.value = IntV(42)
        /\ text = TrueText => outcome.value = BoolV(TRUE)
        /\ text = NullText => outcome.value = NullV

(***************************************************************************)
(* C2: an input that ends before its top-level value is complete fails     *)
(* with a located LexError or ParseError: a message, a line and a column,  *)
(* both 1-based; never another failure, never a value.                     *)
(***************************************************************************)
IsProperPrefix(t, d) == Len(t) < Len(d) /\ SubSeq(d, 1, Len(t)) = t

\* No proper prefix of a document that starts with a bracket, a quote or a
\* keyword is a document; a proper prefix of a number is one exactly when
\* it is a number.
Incomplete(t) ==
    /\ \E d \in Docs : IsProperPrefix(t, d)
    /\ t \notin Docs
    /\ ~IsNumberLexeme(t)

UnterminatedInputIsLocatedError == (Done /\ Incomplete(text)) => IsLocated(outcome)

(***************************************************************************)
(* C4: a \u escape in a string literal with fewer than four characters     *)
(* after it before the end of the input aborts tokenize with a LexError    *)
(* that carries a message, the line and the column.                        *)
(***************************************************************************)
ShortUnicodeEscape(t) ==
    \E i \in 2..(Len(t) - 1) :
        /\ t[1] = "\""
        /\ \A j \in 2..(i - 1) : t[j] \in Letters
        /\ t[i] = "\\" /\ t[i + 1] = "u"
        /\ Len(t) - (i + 1) < 4

ShortUnicodeEscapeIsLexError ==
    (Done /\ ShortUnicodeEscape(text)) => (outcome.kind = "LexError" /\ IsLocated(outcome))

(***************************************************************************)
(* C5: a Number token is emitted only for a lexeme of the number grammar;  *)
(* a lexeme with no digit after its point (1.), with an empty integer part *)
(* (-, -.1) or with no digit in its exponent (1e, 1e+) fails with the      *)
(* "Invalid number" error.                                                 *)
(***************************************************************************)
BadNumbers ==
    {<<"1", ".">>, <<"-">>, <<"-", ".", "1">>, <<"1", "e">>, <<"1", "e", "+">>}

NumbersFollowGrammar ==
    /\ \A i \in 1..Len(Tokens) :
          Tokens[i].type = "NUMBER" => IsNumberLexeme(Text(Tokens[i]))
    /\ \A b \in BadNumbers :
          (Done /\ text = <<"[">> \o b \o <<"]">>) =>
              (outcome.kind = "LexError" /\ outcome.msg = "Invalid number: " \o Join(b))

(***************************************************************************)
(* C6: a run of whitespace put between two adjacent tokens of a well-      *)
(* formed document (the EOF token being the last of them) does not change  *)
(* the outcome: both documents parse, to equal values.                     *)
(***************************************************************************)
\* In a well-formed document of Docs one of any two adjacent tokens is
\* structural, and no string holds a structural character.
BetweenTokens(d, i) ==
    /\ i >= 1
    /\ i = Len(d) \/ d[i] \in Structural \/ d[i + 1] \in Structural

WhitespaceBetweenTokensIgnored ==
    (Done /\ prev # NoPrev /\ prev.ch \in Whitespace /\ BetweenTokens(prev.text, prev.at)) =>
        /\ prev.outcome.kind = "value"
        /\ outcome = prev.outcome

(***************************************************************************)
(* C3, as claimed: in an array or an object, a comma immediately followed  *)
(* by the container's closing bracket always fails with "Trailing comma in *)
(* array" / "Trailing comma in object" at the closing bracket, never with  *)
(* the "Expected X, got Y" or the "Unexpected token" error.  Stated on a   *)
(* well-formed document into which a comma was put right before a closing  *)
(* bracket: the only comma followed by a closer is that one.               *)
(***************************************************************************)
Closer(fn) == IF fn = "object" THEN "RBRACE" ELSE "RBRACKET"

TrailingMessage(fn) == "Trailing comma in " \o fn

CommaPutBeforeCloser ==
    /\ prev # NoPrev
    /\ prev.ch = ","
    /\ prev.at < Len(prev.text)
    /\ prev.text[prev.at + 1] \in {"]", "}"}

CommaBeforeCloserIsTrailingComma ==
    (Done /\ CommaPutBeforeCloser) =>
        outcome = Outcome("ParseError",
                          TrailingMessage(IF text[prev.at + 2] = "}" THEN "object" ELSE "array"),
                          LineOf(text, prev.at + 1), ColumnOf(text, prev.at + 1), NullV)

(***************************************************************************)
(* C3, amended: when parse_array (parse_object) has parsed an element (a   *)
(* member) and the current token is a comma whose next token is the        *)
(* container's closing bracket, the parse fails at once with "Trailing     *)
(* comma in array" ("Trailing comma in object") located at the closing     *)
(* bracket token; [1,2,] and {"a":1,} fail this way.                       *)
(***************************************************************************)
AtSeparator ==
    /\ pc = "parse"
    /\ mode = "ret"
    /\ stack # <<>>
    /\ Tokens[parser.pos + 1].type = "COMMA"

TrailingExamples ==
    /\ text = <<"[", "1", ",", "2", ",", "]">> =>
          outcome = Outcome("ParseError", "Trailing comma in array", 1, 6, NullV)
    /\ text = <<"{", "\"", "a", "\"", ":", "1", ",", "}">> =>
          outcome = Outcome("ParseError", "Trailing comma in object", 1, 8, NullV)

TrailingCommaAfterElement ==
    /\ [](Done => TrailingExamples)
    /\ [][(AtSeparator /\ Tokens[parser.pos + 2].type = Closer(Top.fn)) =>
            /\ pc' = "done"
            /\ outcome' = Outcome("ParseError", TrailingMessage(Top.fn),
                                  Tokens[parser.pos + 2].line,
                                  Tokens[parser.pos + 2].column, NullV)]_vars

TrailingCommaReported ==
    /\ Done
    /\ text = <<"[", "1", ",", "2", ",", "]">>
    /\ outcome.msg = "Trailing comma in array"
    /\ Top.fn = "array"
    /\ Tokens[parser.pos].type = "COMMA"

(***************************************************************************)
(* C7: every token records the 1-based line and column of its first        *)
(* character: line = 1 + the newlines before it, column = 1 + the          *)
(* characters since the last newline or the start.  A parser error is      *)
(* reported at the recorded position of the current token: for             *)
(* {, newline, two spaces, "a": } the missing value is reported at line 2, *)
(* column 8.                                                               *)
(***************************************************************************)
PositionExample == <<"{", "\n", " ", " ", "\"", "a", "\"", ":", " ", "}">>

PositionsAreFirstCharacter ==
    /\ \A i \in 1..Len(Tokens) :
          /\ Tokens[i].line = LineOf(text, Tokens[i].start)
          /\ Tokens[i].column = ColumnOf(text, Tokens[i].start)
    /\ (Done /\ outcome.kind = "ParseError") =>
          /\ outcome.line = CurrentToken(parser).line
          /\ outcome.column = CurrentToken(parser).column
    /\ (Done /\ text = PositionExample) =>
          outcome = Outcome("ParseError", "Unexpected token: RBRACE", 2, 8, NullV)

MissingValueLocated ==
    /\ Done
    /\ text = PositionExample
    /\ outcome.line = 2
    /\ outcome.column = 8
    /\ CurrentToken(parser).type = "RBRACE"
    /\ CurrentToken(parser).start = 9

(***************************************************************************)
(* C8: an object literal's key that occurs more than once is in the parsed *)
(* object exactly once, with the value of its last occurrence, whatever    *)
(* members lie between; {"a":1,"a":2} gives the single key a with 2.       *)
(* Stated on objects whose member values are scalars: member j is the      *)
(* tokens 4j-2 (key), 4j-1 (colon), 4j (value).                            *)
(***************************************************************************)
IsFlatObject ==
    /\ Done
    /\ outcome.kind = "value"
    /\ Tokens[1].type = "LBRACE"
    /\ \A i \in 2..Len(Tokens) : Tokens[i].type \notin {"LBRACE", "LBRACKET"}

Members == (Len(Tokens) - 2) \div 4

KeyOf(j) == Tokens[4 * j - 2].value.s

LastOf(k) ==
    CHOOSE j \in 1..Members : KeyOf(j) = k /\ \A i \in (j + 1)..Members : KeyOf(i) # k

LastWriteWins ==
    IsFlatObject =>
        LET obj == outcome.value IN
        /\ obj.t = "object"
        /\ Len(obj.keys) = Len(obj.items)
        /\ {obj.keys[i] : i \in 1..Len(obj.keys)} = {KeyOf(j) : j \in 1..Members}
        /\ \A j \in 1..Members :
              /\ Cardinality({i \in 1..Len(obj.keys) : obj.keys[i] = KeyOf(j)}) = 1
              /\ obj.items[Index(obj.keys, KeyOf(j))] = Tokens[4 * LastOf(KeyOf(j))].value

DuplicateKeyOverwritten ==
    /\ Done
    /\ text = <<"{", "\"", "a", "\"", ":", "1", ",", "\"", "b", "\"", ":", "2", ",",
                "\"", "a", "\"", ":", "3", "}">>
    /\ outcome.value = ObjV(<<<<"a">>, <<"b">>>>, <<IntV(3), IntV(2)>>)

(***************************************************************************)
(* C9: the parser's cursor is forward-only and bounded: 0 <= pos <=        *)
(* len(tokens) - 1 in every state of a parse, pos never decreases, and     *)
(* once the current token is the final EOF token an advance leaves pos     *)
(* unchanged and returns that EOF token.                                   *)
(***************************************************************************)
\* A parser exists once tokenize has returned.
HasParser == pc = "parse" \/ (Done /\ outcome.kind \in {"value", "ParseError"})

CursorInRange ==
    HasParser =>
        /\ 0 <= parser.pos
        /\ parser.pos <= Len(Tokens) - 1
        /\ CurrentToken(parser) = Tokens[parser.pos + 1]

CursorForwardBounded ==
    /\ []CursorInRange
    /\ [][/\ pc' # "lex" => parser'.pos >= parser.pos
          /\ (Done /\ pc' = "done" /\ Tokens[parser.pos + 1].type = "EOF") =>
                /\ parser'.pos = parser.pos
                /\ returned' = Tokens[Len(Tokens)]]_vars

AdvancedAtEOF ==
    /\ Done
    /\ returned.type = "EOF"
    /\ parser.pos = Len(Tokens) - 1
    /\ Len(Tokens) > 3

(***************************************************************************)
(* C10: parse_json terminates.  An iteration of tokenize's loop raises or  *)
(* moves the character position forward; a step of the parser raises or    *)
(* moves the token cursor forward, and a parse_value call that returns has *)
(* moved it, so the loops of parse_object and parse_array do not spin on   *)
(* the EOF token; every call reaches its end.                              *)
(***************************************************************************)
LexerProgress == (pc = "lex" /\ pc' = "lex") => lexer'.pos > lexer.pos

ParserProgress ==
    /\ (pc = "parse" /\ pc' = "parse") => parser'.pos > parser.pos
    /\ (pc = "parse" /\ pc' = "parse" /\ Len(stack') < Len(stack)) => parser'.pos > Top.entry

\* Both positions are bounded and, until the call is over, a step is possible.
Bounded ==
    /\ lexer.pos <= Len(text)
    /\ Len(Tokens) <= Len(text) + 1
    /\ pc = "parse" => parser.pos <= Len(Tokens) - 1

Terminates ==
    /\ [][LexerProgress /\ ParserProgress]_vars
    /\ [](Bounded /\ (Done \/ Steppable))

ParsedNestedToTheEnd ==
    /\ Done
    /\ outcome.kind = "value"
    /\ text = <<"[", "{", "\"", "a", "\"", ":", "1", "}", ",", "1", "]">>
    /\ parser.pos = Len(Tokens) - 1
====
